---- MODULE Spec2Model ----
(***************************************************************************)
(* PatchStore (endpoint/patch-store.go): a BoltDB-backed ledger of sync    *)
(* patches.  One background worker drains the unbuffered channel           *)
(* p.patches and persists each patch inside one db.Update transaction;     *)
(* Load reads every stored patch inside one db.View transaction, sorts by  *)
(* stamp descending, pages, and starts a goroutine pruning everything      *)
(* beyond the 100 most recent; Stop closes the done channel and the db.    *)
(***************************************************************************)
EXTENDS Integers, Sequences, FiniteSets, TLC

\* ------------------------------------------------------------------ bounds
MaxSubmits    == 2   \* Store/PublishPatch calls in one run
MaxLoads      == 1   \* Load calls in one run (after the one of NewPatchStore)
MaxOffset     == 2   \* Load offsets 0..MaxOffset
MaxLimit      == 2   \* Load limits 0..MaxLimit
MaxPruneTasks == 2   \* prune goroutines pending at one time
ExtraStored   == 1   \* patches beyond the retention limit in the large store

\* ------------------------------------------------------- program constants
Retention == 100     \* `if len(stamps) > 100` / `stamps[100:]`

\* --------------------------------------------------------------- endpoints
SourceURI == "A"     \* p.source.GetEndpointInfo().URI
TargetURI == "B"     \* p.target.GetEndpointInfo().URI
OtherURI  == "C"     \* the URI of an endpoint configured in an earlier run

\* The goroutines calling Store/PublishPatch.
Callers == {"c1", "c2"}

\* ------------------------------------------------------------- operations
\* An in-memory merger.Operation.  A simple operation uses Type and Node;
\* a conflict also carries ConflictType, LeftOp and RightOp.  NilOp is the
\* nil interface value.
NoField == "-"
SimpleOp(t, n) ==
    [Type |-> t, Node |-> n, ConflictType |-> NoField, LeftOp |-> NoField, RightOp |-> NoField]
ConflictOp(n, ct, l, r) ==
    [Type |-> "conflict", Node |-> n, ConflictType |-> ct, LeftOp |-> l, RightOp |-> r]
NilOp == SimpleOp("nil", NoField)

ConflictKeys == {"ConflictType", "LeftOp", "RightOp"}

\* json.Marshal(operation): the stored value of one operation record.  `ok`
\* is whether the bytes are JSON that unmarshals into an operation, `keys`
\* the conflict members present in the JSON object.
Marshal(op) ==
    [ok |-> TRUE, Type |-> op.Type, Node |-> op.Node,
     keys |-> IF op.Type = "conflict" THEN ConflictKeys ELSE {},
     ConflictType |-> op.ConflictType, LeftOp |-> op.LeftOp, RightOp |-> op.RightOp]

\* Stored values that are not the image of any operation.
Malformed == [Marshal(NilOp) EXCEPT !.ok = FALSE]
ConflictMissing(op, k) == [Marshal(op) EXCEPT !.keys = ConflictKeys \ {k}]

\* json.Unmarshal(v, &operation) at line 183, for a well-formed value: the
\* generic fields; the conflict members are left to unmarshalConflict.
Unmarshal(v) == SimpleOp(v.Type, v.Node)

\* PatchStore.unmarshalConflict: <<operation, err>>.
unmarshalConflict(data, op) ==
    IF op.Type # "conflict" THEN [op |-> op, err |-> FALSE]
    ELSE IF "ConflictType" \notin data.keys THEN [op |-> NilOp, err |-> TRUE]
    ELSE IF "LeftOp" \notin data.keys THEN [op |-> NilOp, err |-> TRUE]
    ELSE IF "RightOp" \notin data.keys THEN [op |-> NilOp, err |-> TRUE]
    ELSE [op |-> ConflictOp(op.Node, data.ConflictType, data.LeftOp, data.RightOp),
          err |-> FALSE]

\* The body of the cursor loop of Load (lines 181-191) for one stored value:
\* the operations it enqueues into the patch.  patch.Enqueue receives the
\* result of unmarshalConflict also when that call failed, i.e. nil.
LoadOp(v) ==
    IF v.ok THEN <<unmarshalConflict(v, Unmarshal(v)).op>> ELSE <<>>

\* itob(id): the 8-byte big-endian key of sequence number id, as the tuple
\* of its bytes; the cursor walks keys in byte-wise order.
RECURSIVE Bytes(_, _)
Bytes(v, n) == IF n = 0 THEN <<>> ELSE Append(Bytes(v \div 256, n - 1), v % 256)
itob(v) == Bytes(v, 8)

RECURSIVE BytesLess(_, _)
BytesLess(a, b) ==
    IF a = <<>> \/ b = <<>> THEN a = <<>> /\ b # <<>>
    ELSE IF Head(a) # Head(b) THEN Head(a) < Head(b)
    ELSE BytesLess(Tail(a), Tail(b))


\* ------------------------------------------------------------------ stamps
\* Stamps are instants 0..TopStamp.  Now stands for time.Now() at Load: later
\* than every stamp a patch carries.
TopStamp == Retention + ExtraStored + 3
Now      == TopStamp + 1

\* time.Time.MarshalJSON / UnmarshalJSON.  A stored stamp is absent (<<>>) or
\* one JSON value; Load keeps time.Now() when the value does not parse.
MarshalStamp(t) == [ok |-> TRUE, t |-> t]
BadStamp        == [ok |-> FALSE, t |-> 0]
UnmarshalStamp(s) == IF s # <<>> /\ s[1].ok THEN s[1].t ELSE Now

\* ----------------------------------------------------------------- buckets
\* A patch sub-bucket.  Each key holds <<>> (absent) or <<value>>; the nested
\* "operations" bucket is [sequence, kv], kv a set of [k, v] pairs.
EmptyBucket == [stamp |-> <<>>, patchError |-> <<>>, source |-> <<>>, operations |-> <<>>]
EmptyOps    == [sequence |-> 0, kv |-> {}]

\* bucket.Bucket(k) on the "patches" bucket d: <<>> or <<sub-bucket>>.
BucketOf(d, u) == IF u \in DOMAIN d THEN <<d[u]>> ELSE <<>>

\* d with the sub-bucket of u set to b (<<>>: removed).
WithBucket(d, u, b) ==
    [v \in (DOMAIN d \ {u}) \cup (IF b # <<>> THEN {u} ELSE {}) |->
        IF v = u THEN b[1] ELSE d[v]]

\* The cursor of a bucket: its values in byte-wise key order.
RECURSIVE CursorWalk(_)
CursorWalk(kv) ==
    IF kv = {} THEN <<>>
    ELSE LET first == CHOOSE e \in kv : \A f \in kv \ {e} : BytesLess(e.k, f.k)
         IN  <<first.v>> \o CursorWalk(kv \ {first})

\* ---------------------------------------------------------- error messages
\* An error message is a sequence of pieces: plain text, or a formatting verb
\* such as %d standing in the text.
Text(s) == [kind |-> "text", s |-> s]
Verb(s) == [kind |-> "verb", s |-> s]

\* errs[0].Error() as written at line 276: the bytes of the message.
ErrorBytes(msg) == msg

\* fmt.Errorf(string(errValue)) at line 167: the stored bytes are the format
\* string and there are no arguments, so text is copied and every verb is
\* printed as %!verb(MISSING).
Errorf(format) ==
    [i \in 1..Len(format) |->
        IF format[i].kind = "verb" THEN [kind |-> "missing", s |-> format[i].s]
        ELSE format[i]]

\* ------------------------------------------------------- persist, by line
\* merger.Patch.HasErrors(): the errors of the patch and whether there are any.
HasErrors(patch) == [errs |-> patch.errs, has |-> patch.errs # <<>>]

\* The test with the flag's negation lost.
SkipPersist_flagInverted(patch, last) ==
    Len(patch.ops) = 0 /\ ~HasErrors(patch).has /\ last

\* Line 255: do not store an empty/no-error patch, except if the previous
\* one had an error.
SkipPersist(patch, last) ==
    Len(patch.ops) = 0 /\ ~HasErrors(patch).has /\ ~last

\* The old sub-bucket kept: the new content is written over it.
DeleteOld_kept(t) == t

\* Lines 266-268: fully replace bucket content: delete the sub-bucket if it
\* exists.  t is the transaction's view of the sub-bucket (<<>> or <<b>>).
DeleteOld(t) == <<>>

\* Lines 269 and 273-274: CreateBucketIfNotExists(bName), Put(timeKey, mTime).
CreateAndStamp(t, patch) ==
    LET b == IF t = <<>> THEN EmptyBucket ELSE t[1]
    IN  <<[b EXCEPT !.stamp = <<MarshalStamp(patch.stamp)>>]>>

\* Lines 280-285: WalkOperations in enqueue order; each operation is put under
\* itob(NextSequence()).
RECURSIVE WalkOperations(_, _)
WalkOperations(ops, bucket) ==
    IF ops = <<>> THEN bucket
    ELSE LET id == bucket.sequence + 1
         IN  WalkOperations(Tail(ops),
                 [sequence |-> id,
                  kv |-> {e \in bucket.kv : e.k # itob(id)}
                            \cup {[k |-> itob(id), v |-> Marshal(Head(ops))]}])

\* Lines 275-285: Put(patchErrKey) when the patch has errors, Put(patchSourceKey),
\* CreateBucket(opsKey) and the walk.  CreateBucket fails when the key exists;
\* the error is dropped and nothing is written to the existing bucket.
PutContent(t, patch) ==
    LET b  == t[1]
        he == HasErrors(patch)
        b1 == IF he.has /\ Len(he.errs) > 0
              THEN [b EXCEPT !.patchError = <<ErrorBytes(Head(he.errs))>>] ELSE b
        b2 == [b1 EXCEPT !.source = <<patch.source>>]
    IN  <<IF b2.operations = <<>>
          THEN [b2 EXCEPT !.operations = <<WalkOperations(patch.ops, EmptyOps)>>]
          ELSE b2>>

\* --------------------------------------------------------- Load, by line
\* Lines 160-192: the patch rebuilt from the sub-bucket b stored under u.
RECURSIVE Enqueue(_)
Enqueue(vals) ==
    IF vals = <<>> THEN <<>> ELSE LoadOp(Head(vals)) \o Enqueue(Tail(vals))

\* The roles inverted only for a record that names the configured target.
Inverted_ifTarget(b) == b.source # <<>> /\ b.source[1] = TargetURI

\* Line 169: a source is recorded and it is not the configured source's URI.
Inverted(b) == b.source # <<>> /\ b.source[1] # SourceURI

Reconstruct(u, b) ==
    [uuid   |-> u,
     err    |-> IF b.patchError # <<>> THEN <<Errorf(b.patchError[1])>> ELSE <<>>,
     source |-> IF Inverted(b) THEN TargetURI ELSE SourceURI,
     target |-> IF Inverted(b) THEN SourceURI ELSE TargetURI,
     stamp  |-> UnmarshalStamp(b.stamp),
     ops    |-> IF b.operations = <<>> THEN <<>>
                ELSE Enqueue(CursorWalk(b.operations[1].kv))]

\* Line 180 dereferences the nested bucket: a sub-bucket without one makes
\* Load panic.
NilOpsBucket(d) == \E u \in DOMAIN d : d[u].operations = <<>>

\* patchSorter.Less and sort.Sort (not stable): every order of the uuids in S
\* in which stamps never increase.  st maps a uuid to its stamp.
RECURSIVE Perms(_)
Perms(S) ==
    IF S = {} THEN {<<>>}
    ELSE UNION {{<<x>> \o q : q \in Perms(S \ {x})} : x \in S}

\* The orders of the uuids of S, all with stamps in lo..hi: the newer half of
\* the range before the older half, every order of the uuids of one stamp.
RECURSIVE SortRange(_, _, _, _)
SortRange(S, st, lo, hi) ==
    IF S = {} THEN {<<>>}
    ELSE IF lo = hi THEN Perms(S)
    ELSE LET mid == (lo + hi) \div 2
         IN  {a \o b : a \in SortRange({u \in S : st[u] > mid}, st, mid + 1, hi),
                       b \in SortRange({u \in S : st[u] <= mid}, st, lo, mid)}

SortedOrders(S, st) == SortRange(S, st, 0, Now)

\* The prune list starting one position early.
Prunes_offByOne(stamps) ==
    IF Len(stamps) > Retention
    THEN [i \in 1..(Len(stamps) - Retention + 1) |-> stamps[Retention - 1 + i].uuid]
    ELSE <<>>

\* Lines 201-206: the uuids beyond the Retention most recent.
Prunes(stamps) ==
    IF Len(stamps) > Retention
    THEN [i \in 1..(Len(stamps) - Retention) |-> stamps[Retention + i].uuid]
    ELSE <<>>

\* Lines 207-215: the page loop, i the zero-based index.
RECURSIVE PageLoop(_, _, _, _, _)
PageLoop(stamps, i, offset, limit, acc) ==
    IF i >= Len(stamps) THEN acc
    ELSE IF i < offset THEN PageLoop(stamps, i + 1, offset, limit, acc)
    ELSE IF i >= offset + limit - 1 THEN Append(acc, stamps[i + 1])
    ELSE PageLoop(stamps, i + 1, offset, limit, Append(acc, stamps[i + 1]))

Page(stamps, offset, limit) == PageLoop(stamps, 0, offset, limit, <<>>)

\* The sorted list `stamps` Load builds from snapshot d in uuid order `order`.
Stamps(d, order) == [i \in 1..Len(order) |-> Reconstruct(order[i], d[order[i]])]

StampOf(d) == [u \in DOMAIN d |-> UnmarshalStamp(d[u].stamp)]


\* ------------------------------------------------------------------- state
VARIABLES
    db,            \* the committed "patches" bucket: uuid -> sub-bucket
    dbOpen,        \* the bbolt handle is open (until Stop's db.Close)
    tx,            \* the worker's open write transaction: its sub-bucket, <<>> or <<b>>
    txPre,         \* the committed sub-bucket when that transaction began
    wpc,           \* the worker goroutine's position
    cur,           \* <<>> or <<[patch, ticket, flagBefore, late]>>: the patch the worker holds
    lastHasErrors, \* p.lastHasErrors
    patches,       \* p.patches: the sends offered on the channel, [from, patch, late];
                   \* late: the call was made after Stop had begun
    cpc,           \* each caller of Store/PublishPatch: "idle" or "blocked"
    cres,          \* what the caller's last Store/PublishPatch call gave back
    nSubmit,       \* Store/PublishPatch calls so far
    nRecv,         \* patches the worker received so far
    nDone,         \* persist calls that returned so far
    doneClosed,    \* p.done is closed
    spc,           \* Stop's position: "run", "closing", "stopped"
    fatal,         \* "no", or the panic that ended the process
    pruneTasks,    \* the prune goroutines started by Load and not yet run
    loaded,        \* the Load call that returned in the last step, if any
    nLoad,         \* Load calls so far
    lastDone,      \* the last persist call that returned, and how
    updateErr,     \* the error of the last db.Update of persist (dropped)
    lastPrune,     \* the last prune goroutine that ran
    prevLoad,      \* the snapshot and order of the Load before, kept for the next
    nStop          \* Stop calls so far

vars == <<db, dbOpen, tx, txPre, wpc, cur, lastHasErrors, patches, cpc, cres,
          nSubmit, nRecv, nDone, doneClosed, spc, fatal, pruneTasks, loaded, nLoad,
          lastDone, updateErr, lastPrune, prevLoad, nStop>>

workerVars == <<tx, txPre, wpc, cur, lastHasErrors, nRecv, nDone, lastDone, updateErr>>
callerVars == <<patches, cpc, cres, nSubmit>>
stopVars   == <<doneClosed, spc, dbOpen, nStop>>

Alive == fatal = "no"
InTx  == wpc \in {"txDelete", "txCreate", "txPut", "txCommit"}

\* ------------------------------------------------------------------ inputs
NewUUID == Retention + ExtraStored + 1

OpA == SimpleOp("create", "a")
OpB == SimpleOp("delete", "b")
OpC == ConflictOp("c", "content", "update", "delete")

\* Error messages: E1 is plain text, E2 holds a verb ("e2: 100%d").
E1 == <<Text("e1")>>
E2 == <<Text("e2: 100"), Verb("d")>>

MkPatch(u, t, errs, ops, src) ==
    [uuid |-> u, stamp |-> t, errs |-> errs, ops |-> ops, source |-> src]

PatchInputs ==
    { MkPatch(1,       TopStamp, <<>>,           <<>>,              SourceURI),
      MkPatch(NewUUID, 0,        <<E2, E1>>,     <<>>,              TargetURI),
      MkPatch(NewUUID, TopStamp, <<>>,           <<OpA, OpC, OpB>>, SourceURI),
      MkPatch(1,       2,        <<E1>>,         <<OpB>>,           TargetURI) }

\* A sub-bucket as persist leaves it, and with given operation values.
RawBucket(t, err, src, vals) ==
    [stamp |-> <<t>>, patchError |-> err, source |-> <<src>>,
     operations |-> <<[sequence |-> Len(vals),
                       kv |-> {[k |-> itob(i), v |-> vals[i]] : i \in 1..Len(vals)}]>>]

\* Stores found at open.  StoreErr: the most recent patch has an error.
\* StoreCorrupt: operation values that do not deserialize, two patches with
\* the same stamp, a stamp that does not parse, a source of an earlier setup.
StoreEmpty == [u \in {} |-> EmptyBucket]
StoreErr ==
    [u \in {1, 2} |->
        IF u = 1 THEN RawBucket(MarshalStamp(2), <<E1>>, TargetURI, <<Marshal(OpB)>>)
        ELSE RawBucket(MarshalStamp(1), <<>>, SourceURI, <<Marshal(OpA)>>)]
StoreCorrupt ==
    [u \in {1, 2, 3} |->
        IF u = 1 THEN RawBucket(MarshalStamp(3), <<>>, SourceURI,
                          <<Marshal(OpA), Marshal(OpC), Malformed, Marshal(OpB), Marshal(OpA)>>)
        ELSE IF u = 2 THEN RawBucket(MarshalStamp(3), <<>>, SourceURI,
                          <<Marshal(OpA), ConflictMissing(OpC, "LeftOp"), Marshal(OpB)>>)
        ELSE RawBucket(BadStamp, <<>>, OtherURI, <<>>)]
StoreLarge ==
    [u \in 1..(Retention + ExtraStored) |->
        RawBucket(MarshalStamp(u), <<>>, SourceURI, <<>>)]

SmallStores == {StoreEmpty, StoreErr, StoreCorrupt}

\* ------------------------------------------------------------ Load, result
\* A read that sees the writer's uncommitted sub-bucket.
ReadSnapshot_dirty == IF InTx THEN WithBucket(db, cur[1].patch.uuid, tx) ELSE db

\* The View transaction reads the last committed state.
ReadSnapshot == db

Set(seq) == {seq[i] : i \in 1..Len(seq)}

\* The prune goroutine of one Load: the closure's `prunes`, and about the
\* snapshot it was computed from: its size and whether its stamps were
\* distinct; raced: a patch was persisted, or a raced prune ran, since that
\* snapshot.
PruneTask(stamps) ==
    [list  |-> Prunes(stamps),
     n     |-> Len(stamps),
     distinctStamps |-> Cardinality({stamps[i].stamp : i \in 1..Len(stamps)}) = Len(stamps),
     raced |-> FALSE]

\* The deletions done before Load returns.
StartPrune_inline(d, prunes) == [u \in DOMAIN d \ Set(prunes) |-> d[u]]

\* Lines 217-233: `go func() { ... }()`: the goroutine is only started; the
\* store is as it was when Load returns.
StartPrune(d, prunes) == d

\* The arguments of Load (the offsets include the first pruned position), and
\* what one Load call returns for each of them.
LoadArgs == ((0..MaxOffset) \cup {Retention}) \X (0..MaxLimit)

NoLoad == [done |-> FALSE, e |-> FALSE, patches |-> [a \in LoadArgs |-> <<>>],
           stamps |-> <<>>, during |-> <<>>, prev |-> <<>>]

\* No Load kept.  A kept Load is its snapshot d, the order sort.Sort gave, and
\* whether the store was written since: a persist was committed, or a prune
\* goroutine ran whose list was older than a persist.
NoPrev == [done |-> FALSE, d |-> <<>>, order |-> <<>>, written |-> FALSE]

\* sort.Sort(stamps) at line 200.  The sort is not stable, so patches of one
\* stamp come in any order; but it is a function of its input: on the snapshot
\* of the Load before, it gives the order it gave then.
SortOrders(d, prev) ==
    IF prev.done /\ prev.d = d THEN {prev.order}
    ELSE SortedOrders(DOMAIN d, StampOf(d))


\* -------------------------------------------------------------------- Init
\* The flag left at its zero value.
SeedFlag_unseeded(last) == FALSE

\* Lines 93-95: the flag is what the patch of Load(0, 1) reports, and stays
\* false when Load returns nothing.
SeedFlag(last) == Len(last) > 0 /\ last[1].err # <<>>

\* NewPatchStore on a store holding d: the flag is seeded from Load(0, 1),
\* which also starts a prune goroutine when d holds more than Retention
\* patches; then the worker goroutine is started.
Opened(d) ==
    /\ db = d
    /\ \E order \in SortedOrders(DOMAIN d, StampOf(d)) :
          LET stamps == Stamps(d, order)
              last   == Page(stamps, 0, 1)
          IN  /\ lastHasErrors = SeedFlag(last)
              /\ pruneTasks = IF Prunes(stamps) # <<>> THEN <<PruneTask(stamps)>> ELSE <<>>
    /\ dbOpen = TRUE
    /\ tx = <<>> /\ txPre = <<>>
    /\ wpc = "recv" /\ cur = <<>>
    /\ patches = {}
    /\ cpc = [c \in Callers |-> "idle"]
    /\ cres = [c \in Callers |-> "none"]
    /\ nSubmit = 0 /\ nRecv = 0 /\ nDone = 0
    /\ doneClosed = FALSE /\ spc = "run" /\ fatal = "no"
    /\ loaded = NoLoad
    /\ nLoad = 0
    /\ lastDone = [outcome |-> "none", patch |-> MkPatch(0, 0, <<>>, <<>>, SourceURI),
                   ticket |-> 0, flagBefore |-> FALSE, pre |-> <<>>, prevHas |-> FALSE]
    /\ updateErr = FALSE
    /\ lastPrune = [ran |-> FALSE, task |-> PruneTask(<<>>), closed |-> FALSE]
    /\ prevLoad = NoPrev
    /\ nStop = 0

Init      == \E d \in SmallStores : Opened(d)
InitLarge == Opened(StoreLarge)

\* ----------------------------------------------------- Store, PublishPatch
\* The send on a buffered channel: the caller goes on at once.
Send_buffered(c, patch) ==
    /\ Alive
    /\ cpc[c] = "idle"
    /\ nSubmit < MaxSubmits
    /\ patches' = patches \cup {[from |-> c, patch |-> patch, late |-> doneClosed]}
    /\ cres' = [cres EXCEPT ![c] = "returned"]
    /\ nSubmit' = nSubmit + 1
    /\ loaded' = NoLoad
    /\ nLoad' = nLoad
    /\ UNCHANGED prevLoad
    /\ UNCHANGED <<cpc, db, workerVars, stopVars, fatal, pruneTasks, lastPrune>>

\* `p.patches <- patch` on the unbuffered channel: the send is offered and
\* the caller blocks until the worker receives it.
Send(c, patch) ==
    /\ Alive
    /\ cpc[c] = "idle"
    /\ nSubmit < MaxSubmits
    /\ patches' = patches \cup {[from |-> c, patch |-> patch, late |-> doneClosed]}
    /\ cpc' = [cpc EXCEPT ![c] = "blocked"]
    /\ nSubmit' = nSubmit + 1
    /\ loaded' = NoLoad
    /\ nLoad' = nLoad
    /\ UNCHANGED prevLoad
    /\ UNCHANGED <<cres, db, workerVars, stopVars, fatal, pruneTasks, lastPrune>>

Store(c, patch)        == Send(c, patch)
PublishPatch(c, patch) == Send(c, patch)

\* ------------------------------------------------------------------ worker
\* A worker that receives while a persist call is still running.
WorkerReady_whilePersisting == TRUE

\* `for patch := range p.patches`: the worker receives only between two
\* persist calls.
WorkerReady == wpc = "recv"

WorkerRecv ==
    /\ Alive
    /\ WorkerReady
    /\ \E m \in patches :
          /\ patches' = patches \ {m}
          /\ cpc' = [cpc EXCEPT ![m.from] = "idle"]
          /\ cres' = [cres EXCEPT ![m.from] = "returned"]
          /\ cur' = <<[patch |-> m.patch, ticket |-> nRecv + 1,
                        flagBefore |-> lastHasErrors, late |-> m.late]>>
    /\ nRecv' = nRecv + 1
    /\ wpc' = "persist"
    /\ loaded' = NoLoad
    /\ nLoad' = nLoad
    /\ UNCHANGED prevLoad
    /\ UNCHANGED <<db, tx, txPre, lastHasErrors, nDone, lastDone, updateErr, nSubmit,
                   stopVars, fatal, pruneTasks, lastPrune>>

\* persist returns: outcome is "suppressed", "written" or "failed".
Return(outcome) ==
    /\ wpc' = "recv"
    /\ cur' = <<>>
    /\ tx' = <<>>
    /\ txPre' = <<>>
    /\ nDone' = nDone + 1
    /\ lastDone' = [outcome |-> outcome, patch |-> cur[1].patch, ticket |-> cur[1].ticket,
                    flagBefore |-> cur[1].flagBefore, pre |-> txPre,
                    prevHas |-> lastDone.outcome # "none" /\ HasErrors(lastDone.patch).has]
    /\ updateErr' = (outcome = "failed")

\* Lines 253-259: the suppression test, the flag, and the start of db.Update,
\* which fails at once on a closed db.
persistEnter ==
    /\ Alive
    /\ wpc = "persist"
    /\ LET patch == cur[1].patch
       IN  IF SkipPersist(patch, lastHasErrors)
           THEN /\ Return("suppressed")
                /\ UNCHANGED <<lastHasErrors, nRecv>>
           ELSE /\ lastHasErrors' = HasErrors(patch).has
                /\ IF dbOpen
                   THEN /\ wpc' = "txDelete"
                        /\ tx' = BucketOf(db, patch.uuid)
                        /\ txPre' = BucketOf(db, patch.uuid)
                        /\ UNCHANGED <<cur, nRecv, nDone, lastDone, updateErr>>
                   ELSE /\ Return("failed")
                        /\ UNCHANGED nRecv
    /\ loaded' = NoLoad
    /\ nLoad' = nLoad
    /\ UNCHANGED prevLoad
    /\ UNCHANGED <<db, callerVars, stopVars, fatal, pruneTasks, lastPrune>>


\* Lines 266-268, inside the transaction.
txDelete ==
    /\ Alive
    /\ wpc = "txDelete"
    /\ tx' = IF tx # <<>> THEN DeleteOld(tx) ELSE tx
    /\ wpc' = "txCreate"
    /\ loaded' = NoLoad
    /\ nLoad' = nLoad
    /\ UNCHANGED prevLoad
    /\ UNCHANGED <<db, txPre, cur, lastHasErrors, nRecv, nDone, lastDone, updateErr,
                   callerVars, stopVars, fatal, pruneTasks, lastPrune>>

\* Lines 269-274, inside the transaction.
txCreate ==
    /\ Alive
    /\ wpc = "txCreate"
    /\ tx' = CreateAndStamp(tx, cur[1].patch)
    /\ wpc' = "txPut"
    /\ loaded' = NoLoad
    /\ nLoad' = nLoad
    /\ UNCHANGED prevLoad
    /\ UNCHANGED <<db, txPre, cur, lastHasErrors, nRecv, nDone, lastDone, updateErr,
                   callerVars, stopVars, fatal, pruneTasks, lastPrune>>

\* Lines 275-286, inside the transaction.
txPut ==
    /\ Alive
    /\ wpc = "txPut"
    /\ tx' = PutContent(tx, cur[1].patch)
    /\ wpc' = "txCommit"
    /\ loaded' = NoLoad
    /\ nLoad' = nLoad
    /\ UNCHANGED prevLoad
    /\ UNCHANGED <<db, txPre, cur, lastHasErrors, nRecv, nDone, lastDone, updateErr,
                   callerVars, stopVars, fatal, pruneTasks, lastPrune>>

\* The end of db.Update (line 287): the transaction commits, or it fails and
\* is rolled back (a `return err` of the closure, an I/O error of the commit).
\* The returned error is dropped.  A commit makes every pending prune list stale.
txCommit ==
    /\ Alive
    /\ wpc = "txCommit"
    /\ \E ok \in BOOLEAN :
          IF ok
          THEN /\ db' = WithBucket(db, cur[1].patch.uuid, tx)
               /\ prevLoad' = IF prevLoad.done THEN [prevLoad EXCEPT !.written = TRUE]
                               ELSE prevLoad
               /\ pruneTasks' = [i \in 1..Len(pruneTasks) |->
                                    [pruneTasks[i] EXCEPT !.raced = TRUE]]
               /\ Return("written")
          ELSE /\ UNCHANGED <<db, pruneTasks, prevLoad>>
               /\ Return("failed")
    /\ loaded' = NoLoad
    /\ nLoad' = nLoad
    /\ UNCHANGED <<lastHasErrors, nRecv, callerVars, stopVars, fatal, lastPrune>>

\* -------------------------------------------------------------------- Load
\* PatchStore.Load(offset, limit).  The View transaction is one snapshot, the
\* rest works on the goroutine's own copy, so the call is one step; the prune
\* goroutine it starts runs later.  The arguments decide nothing but the page
\* returned: loaded.patches[<<offset, limit>>] is the page of the call made
\* with these arguments.
LoadCall(calls, keep) ==
    /\ Alive
    /\ nLoad < calls
    /\ nLoad' = nLoad + 1
    /\ IF ~dbOpen
       THEN /\ loaded' = [NoLoad EXCEPT !.done = TRUE, !.e = TRUE]
            /\ UNCHANGED <<db, fatal, pruneTasks, prevLoad>>
       ELSE LET d == ReadSnapshot
            IN  IF NilOpsBucket(d)
                THEN /\ fatal' = "nil dereference"
                     /\ loaded' = NoLoad
                     /\ UNCHANGED <<db, pruneTasks, prevLoad>>
                ELSE \E order \in SortOrders(d, prevLoad) :
                        LET stamps == Stamps(d, order)
                            prunes == Prunes(stamps)
                        IN  /\ prunes # <<>> => Len(pruneTasks) < MaxPruneTasks
                            /\ pruneTasks' = IF prunes # <<>>
                                             THEN Append(pruneTasks, PruneTask(stamps))
                                             ELSE pruneTasks
                            /\ loaded' = [done |-> TRUE, e |-> FALSE,
                                          patches |-> [a \in LoadArgs |->
                                                          Page(stamps, a[1], a[2])],
                                          stamps |-> stamps,
                                          during |-> IF InTx
                                                     THEN <<[patch |-> cur[1].patch,
                                                             pre |-> txPre]>>
                                                     ELSE <<>>,
                                          prev |-> IF prevLoad.done /\ ~prevLoad.written
                                                   THEN <<Stamps(prevLoad.d, prevLoad.order)>>
                                                   ELSE <<>>]
                            /\ prevLoad' = IF keep
                                           THEN [done |-> TRUE, d |-> d, order |-> order,
                                                 written |-> FALSE]
                                           ELSE prevLoad
                            /\ db' = StartPrune(db, prunes)
                            /\ UNCHANGED fatal
    /\ UNCHANGED <<workerVars, callerVars, stopVars, lastPrune>>

\* A Load call in a run of at most MaxLoads calls.
Load == LoadCall(MaxLoads, FALSE)

\* A Load call in a run where one more call may follow; it is kept for the
\* call after it.
LoadPaged == LoadCall(MaxLoads + 1, TRUE)

\* The goroutine of lines 218-232: one Update transaction deleting every
\* listed sub-bucket that exists.  It waits for the writer lock; on a closed db
\* Update fails and nothing is deleted.
Prune(i) ==
    /\ Alive
    /\ i \in 1..Len(pruneTasks)
    /\ ~InTx
    /\ LET task == pruneTasks[i]
       IN  /\ db' = IF dbOpen
                    THEN [u \in DOMAIN db \ Set(task.list) |-> db[u]]
                    ELSE db
           /\ pruneTasks' = [j \in 1..(Len(pruneTasks) - 1) |->
                                LET t == pruneTasks[IF j < i THEN j ELSE j + 1]
                                IN  [t EXCEPT !.raced = t.raced \/ (task.raced /\ dbOpen)]]
           /\ lastPrune' = [ran |-> TRUE, task |-> task, closed |-> ~dbOpen]
           /\ prevLoad' = IF prevLoad.done /\ task.raced /\ dbOpen
                           THEN [prevLoad EXCEPT !.written = TRUE]
                           ELSE prevLoad
    /\ loaded' = NoLoad
    /\ nLoad' = nLoad
    /\ UNCHANGED <<workerVars, callerVars, stopVars, fatal>>

\* -------------------------------------------------------------------- Stop
\* Line 240: close(p.done); closing a closed channel panics.  p.pipeDone is
\* never set, so line 242 is not reached.
StopCloseDone ==
    /\ Alive
    /\ nStop' = nStop + 1
    /\ IF doneClosed
       THEN /\ fatal' = "close of closed channel"
            /\ UNCHANGED <<doneClosed, spc>>
       ELSE /\ doneClosed' = TRUE
            /\ spc' = "closing"
            /\ UNCHANGED fatal
    /\ loaded' = NoLoad
    /\ nLoad' = nLoad
    /\ UNCHANGED prevLoad
    /\ UNCHANGED <<db, dbOpen, workerVars, callerVars, pruneTasks, lastPrune>>

\* Line 244: p.db.Close(), which waits for the open write transaction.
StopCloseDB ==
    /\ Alive
    /\ spc = "closing"
    /\ ~InTx
    /\ dbOpen' = FALSE
    /\ spc' = "stopped"
    /\ nStop' = nStop
    /\ loaded' = NoLoad
    /\ nLoad' = nLoad
    /\ UNCHANGED prevLoad
    /\ UNCHANGED <<db, doneClosed, workerVars, callerVars, fatal, pruneTasks,
                   lastPrune>>

\* -------------------------------------------------------------------- Next
Submit(callers) ==
    \/ \E c \in callers, patch \in PatchInputs : Store(c, patch)
    \/ \E c \in callers, patch \in PatchInputs : PublishPatch(c, patch)

Worker ==
    \/ WorkerRecv
    \/ persistEnter
    \/ txDelete
    \/ txCreate
    \/ txPut
    \/ txCommit

Next ==
    \/ Submit(Callers)
    \/ Worker
    \/ Load
    \/ StopCloseDone
    \/ StopCloseDB

\* The running store: Stop is not called.
NextRun ==
    \/ Submit(Callers)
    \/ Worker
    \/ Load

\* The store above the retention limit, with one goroutine submitting, while
\* Stop is not called.
NextLarge ==
    \/ Submit({"c1"})
    \/ Worker
    \/ Load
    \/ \E i \in 1..MaxPruneTasks : Prune(i)

\* Consecutive Load calls, on every store, with one goroutine submitting.
InitPaged == \E d \in SmallStores \cup {StoreLarge} : Opened(d)

NextPaged ==
    \/ Submit({"c1"})
    \/ Worker
    \/ LoadPaged
    \/ \E i \in 1..MaxPruneTasks : Prune(i)

\* Spec: stores of at most Retention patches, where no prune goroutine is
\* ever started, from open to shutdown.  SpecRun: the same while Stop is not
\* called.  SpecLarge: a store above the retention limit.  SpecPaged: one Load
\* after another.
Spec      == Init /\ [][Next]_vars
SpecRun   == Init /\ [][NextRun]_vars
SpecLarge == InitLarge /\ [][NextLarge]_vars
SpecPaged == InitPaged /\ [][NextPaged]_vars


\* ======================================================================
\* Properties
\* ======================================================================
EmptyNoError(patch) == Len(patch.ops) = 0 /\ patch.errs = <<>>

\* The record a patch is stored as: its stamp, its first error if it has one,
\* its source URI, its operations under the keys 1..N.
ExpectedRecord(patch) ==
    RawBucket(MarshalStamp(patch.stamp),
              IF patch.errs # <<>> THEN <<ErrorBytes(patch.errs[1])>> ELSE <<>>,
              patch.source,
              [i \in 1..Len(patch.ops) |-> Marshal(patch.ops[i])])

\* A persist call returns in this step.
PersistReturns == nDone' = nDone + 1

\* C1. Suppression: when persist is given a patch with no operations and no
\* error while lastHasErrors is false, it returns at once: no transaction is
\* begun, the stored records and the flag stay as they are; so the call of an
\* empty, error-free patch that found the flag false leaves the store as it is.
C1_Suppression ==
    [][ /\ (wpc = "persist" /\ wpc' # "persist"
              /\ EmptyNoError(cur[1].patch) /\ ~lastHasErrors)
           => (wpc' = "recv" /\ db' = db /\ lastHasErrors' = lastHasErrors
                 /\ lastDone'.outcome = "suppressed")
        /\ (PersistReturns /\ EmptyNoError(lastDone'.patch) /\ ~lastDone'.flagBefore)
           => (db' = db /\ ~lastHasErrors')
      ]_vars

C1_Witness ==
    /\ lastDone.outcome = "suppressed"
    /\ EmptyNoError(lastDone.patch)
    /\ ~lastDone.flagBefore
    /\ DOMAIN db # {}

\* C2 (the claim as stated, for runs in which Stop is not called). The first
\* patch processed after a patch that reported an error is persisted,
\* whatever it holds, and the flag is then what that patch reports.
C2_RecoveryPersisted ==
    (spc = "run" /\ lastDone.prevHas) =>
        /\ lastDone.outcome = "written"
        /\ (wpc = "recv" => lastHasErrors = HasErrors(lastDone.patch).has)

\* C3. Full replace: when persist has written a patch, the record under its
\* uuid is exactly the record of that patch (stamp, source, the error entry
\* only if the patch has an error, its operations), whatever was stored under
\* that uuid before, and every other record is as it was.
C3_FullReplace ==
    [][ (PersistReturns /\ lastDone'.outcome = "written")
        => LET patch == lastDone'.patch
           IN  /\ DOMAIN db' = DOMAIN db \cup {patch.uuid}
               /\ db'[patch.uuid] = ExpectedRecord(patch)
               /\ \A u \in DOMAIN db \ {patch.uuid} : db'[u] = db[u]
      ]_vars

\* An older record with an error entry and operations was replaced by a patch
\* without error.
C3_Witness ==
    /\ lastDone.outcome = "written"
    /\ lastDone.pre # <<>>
    /\ lastDone.pre[1].patchError # <<>>
    /\ lastDone.pre[1].operations[1].kv # {}
    /\ lastDone.patch.errs = <<>>
    /\ lastDone.patch.uuid \in DOMAIN db
    /\ db[lastDone.patch.uuid].patchError = <<>>

\* What a Load shows of uuid u: the patches of its sorted list with that uuid.
Seen(u) == {loaded.stamps[i] : i \in {j \in 1..Len(loaded.stamps) : loaded.stamps[j].uuid = u}}

\* C4. Atomic replace: a Load that runs while the worker's transaction on
\* uuid u is open shows of u the complete record stored before (nothing if
\* there was none) or the complete new record, and no Load ever trips on a
\* record without its operations.
C4_AtomicReplace ==
    /\ fatal # "nil dereference"
    /\ (loaded.done /\ ~loaded.e /\ loaded.during # <<>>) =>
          LET patch == loaded.during[1].patch
              pre   == loaded.during[1].pre
          IN  \/ Seen(patch.uuid) = (IF pre = <<>> THEN {}
                                     ELSE {Reconstruct(patch.uuid, pre[1])})
              \/ Seen(patch.uuid) = {Reconstruct(patch.uuid, ExpectedRecord(patch))}

\* A Load ran after the transaction removed and rewrote an existing record
\* and before it committed.
C4_Witness ==
    /\ loaded.done /\ ~loaded.e
    /\ wpc = "txCommit"
    /\ txPre # <<>>
    /\ tx # txPre
    /\ Seen(cur[1].patch.uuid) = {Reconstruct(cur[1].patch.uuid, txPre[1])}

\* C5. Sequential, ordered writes: the worker holds at most one patch; the
\* patch it holds is the next one in the order of receipt after the last
\* persist call that returned, so the k-th patch received is persisted only
\* after the persist of the (k-1)-th has returned, and a transaction is open
\* only for that patch.
C5_Sequential ==
    /\ nRecv - nDone \in {0, 1}
    /\ (wpc = "recv") <=> (nRecv = nDone)
    /\ (wpc = "recv") <=> (cur = <<>>)
    /\ cur # <<>> => cur[1].ticket = nDone + 1
    /\ lastDone.ticket = nDone
    /\ (tx # <<>> \/ txPre # <<>>) => InTx

C5_Witness ==
    /\ nDone = 1
    /\ lastDone.outcome = "written"
    /\ InTx
    /\ cur[1].ticket = 2
    /\ tx # <<>>

\* C6. Blocking handoff: every send offered on the channel belongs to a
\* caller blocked in Store/PublishPatch and every blocked caller has its send
\* on the channel; the calls that returned are exactly the patches the worker
\* received; while the worker is inside persist no blocked caller is released.
C6_Handoff ==
    /\ [](/\ \A m \in patches : cpc[m.from] = "blocked"
          /\ \A c \in Callers : cpc[c] = "blocked" => \E m \in patches : m.from = c
          /\ Cardinality(patches) = Cardinality({c \in Callers : cpc[c] = "blocked"})
          /\ nSubmit - Cardinality(patches) = nRecv)
    /\ [][wpc # "recv" => \A c \in Callers : cpc[c] = "blocked" => cpc'[c] = "blocked"]_vars

C6_Witness ==
    /\ InTx
    /\ Cardinality(patches) = 1
    /\ \E c \in Callers : cpc[c] = "blocked" /\ cres[c] = "none"
    /\ \E c \in Callers : cpc[c] = "idle" /\ cres[c] = "returned"


Min(a, b) == IF a < b THEN a ELSE b

\* The elements of seq at the zero-based positions from .. from + count - 1.
Slice(seq, from, count) ==
    [i \in 1..(Min(from + count, Len(seq)) - Min(from, Len(seq))) |-> seq[from + i]]

\* C7 (the claim as stated). Load(offset, limit) returns no error and exactly
\* the elements at positions offset .. offset+limit-1 of the list sorted by
\* stamp descending: min(limit, max(0, n - offset)) patches, for every
\* offset >= 0 and limit >= 0.
C7_LoadPaging ==
    (loaded.done /\ ~loaded.e) =>
        /\ \A i \in 1..(Len(loaded.stamps) - 1) :
              loaded.stamps[i].stamp >= loaded.stamps[i + 1].stamp
        /\ \A a \in LoadArgs :
              loaded.patches[a] = Slice(loaded.stamps, a[1], a[2])

\* The store as a prune goroutine leaves it: Retention patches, each more
\* recent than every patch deleted.
KeptMostRecent ==
    /\ Cardinality(DOMAIN db') = Retention
    /\ DOMAIN db' \subseteq DOMAIN db
    /\ \A u \in DOMAIN db', v \in DOMAIN db \ DOMAIN db' :
          UnmarshalStamp(db[v].stamp) < UnmarshalStamp(db[u].stamp)

C9_WriteFailureReported ==
    (spc = "run" /\ updateErr) => \E c \in Callers : cres[c] = "error"

\* The operations a patch is meant to load with: one per stored value that
\* deserializes, in stored order, and nothing for the others.
Deserializes(v) == v.ok /\ ~unmarshalConflict(v, Unmarshal(v)).err

RECURSIVE ValidOps(_)
ValidOps(vals) ==
    IF vals = <<>> THEN <<>>
    ELSE (IF Deserializes(Head(vals))
          THEN <<unmarshalConflict(Head(vals), Unmarshal(Head(vals))).op>>
          ELSE <<>>) \o ValidOps(Tail(vals))

\* The stored values of the sub-bucket b in key order 1..sequence.
StoredValues(b) ==
    [i \in 1..b.operations[1].sequence |->
        (CHOOSE e \in b.operations[1].kv : e.k = itob(i)).v]

\* C10 (the claim as stated). Load gives no error on an open store, and every
\* patch it rebuilds holds exactly the operations of its stored values that
\* deserialize, in stored order: a value that fails (malformed, or a conflict
\* without ConflictType, LeftOp or RightOp) adds no entry, nil or other.
C10_CorruptOpsSkipped ==
    (loaded.done /\ ~loaded.e) =>
        \A i \in 1..Len(loaded.stamps) :
            LET patch == loaded.stamps[i]
            IN  /\ patch.uuid \in DOMAIN db
                /\ patch.ops = ValidOps(StoredValues(db[patch.uuid]))
                /\ \A k \in 1..Len(patch.ops) : patch.ops[k] # NilOp

\* The patch of the uuid of the last persisted patch, as the last Load shows it.
LoadedOf(u) == {loaded.stamps[i] : i \in {j \in 1..Len(loaded.stamps) : loaded.stamps[j].uuid = u}}

\* C11 (the claim as stated). Round trip: a Load after the write of a patch
\* shows under its uuid one patch with the same stamp, the error state of the
\* written patch with its first error's message, and the same operations in
\* the same order, also when the write replaced an older record.
C11_RoundTrip ==
    (loaded.done /\ ~loaded.e /\ lastDone.outcome = "written") =>
        LET patch == lastDone.patch
        IN  \E q \in LoadedOf(patch.uuid) :
               /\ LoadedOf(patch.uuid) = {q}
               /\ q.stamp = patch.stamp
               /\ q.err = (IF patch.errs # <<>> THEN <<patch.errs[1]>> ELSE <<>>)
               /\ q.ops = patch.ops

\* C12. Role inversion: every patch a Load returns whose record names the
\* configured source's URI has (source, target) = (configured source,
\* configured target); one whose record names another URI has them swapped;
\* so the patch written last under the swapped orientation is loaded with the
\* source it was persisted with.
C12_RoleInversion ==
    (loaded.done /\ ~loaded.e) =>
        /\ \A i \in 1..Len(loaded.stamps) :
              LET q == loaded.stamps[i]
                  b == db[q.uuid]
              IN  /\ b.source = <<SourceURI>>
                     => (q.source = SourceURI /\ q.target = TargetURI)
                  /\ (b.source # <<>> /\ b.source # <<SourceURI>>)
                     => (q.source = TargetURI /\ q.target = SourceURI)
        /\ (lastDone.outcome = "written" /\ lastDone.patch.source \in {SourceURI, TargetURI})
           => \A q \in LoadedOf(lastDone.patch.uuid) : q.source = lastDone.patch.source

\* A Load returned a patch that was persisted in this run with the configured
\* target as its source, and a patch recorded with a third URI.
C12_Witness ==
    /\ loaded.done /\ ~loaded.e
    /\ lastDone.outcome = "written"
    /\ lastDone.patch.source = TargetURI
    /\ \E q \in LoadedOf(lastDone.patch.uuid) : q.source = TargetURI /\ q.target = SourceURI
    /\ \E i \in 1..Len(loaded.stamps) : db[loaded.stamps[i].uuid].source = <<OtherURI>>

\* C13. Pruning is asynchronous to Load: a Load leaves the store as it is and
\* returns with its prune goroutine still pending; its list is everything
\* beyond the Retention most recent of the snapshot, and the page at offset
\* Retention still shows the first patch of that list; records disappear only
\* in a later step of a prune goroutine, which is no step of a Load.
C13_PruneAsync ==
    [][ /\ (loaded'.done /\ ~loaded'.e) =>
              /\ db' = db
              /\ Len(loaded'.stamps) > Retention =>
                    /\ Len(pruneTasks') = Len(pruneTasks) + 1
                    /\ LET task == pruneTasks'[Len(pruneTasks')]
                       IN  /\ task.list = [i \in 1..(Len(loaded'.stamps) - Retention) |->
                                              loaded'.stamps[Retention + i].uuid]
                           /\ Set(task.list) \subseteq DOMAIN db'
                           /\ loaded'.patches[<<Retention, 1>>] # <<>>
                           /\ loaded'.patches[<<Retention, 1>>][1].uuid = task.list[1]
        /\ ~(DOMAIN db \subseteq DOMAIN db') =>
              /\ Len(pruneTasks') = Len(pruneTasks) - 1
              /\ lastPrune'.ran
              /\ ~loaded'.done
      ]_vars

\* A Load returned while the worker's transaction was open and the prune
\* goroutine of an earlier Load was still pending; its own goroutine is
\* pending too, and everything on its list is still stored.
C13_Witness ==
    /\ loaded.done /\ ~loaded.e
    /\ InTx
    /\ Len(pruneTasks) = 2
    /\ Set(pruneTasks[2].list) \subseteq DOMAIN db
    /\ loaded.patches[<<Retention, 1>>] # <<>>
    /\ Cardinality(DOMAIN db) > Retention

\* The uuids of the patches of a page.
Uuids(page) == {page[i].uuid : i \in 1..Len(page)}

\* The page sizes k for which Load(0, k), Load(k, k) and Load(0, 2k) are calls
\* of the model.
PageSizes == {k \in 0..MaxLimit : 2 * k <= MaxLimit /\ k <= MaxOffset}

\* C14 (the claim as stated). Pagination stability: when the store was not
\* written between two consecutive Load calls (the prune goroutine of the
\* first may have run), Load(0, k) of the first and Load(k, k) of the second
\* are disjoint and their concatenation is Load(0, 2k), for every k >= 0.
C14_PaginationStable ==
    (loaded.done /\ ~loaded.e /\ loaded.prev # <<>>) =>
        \A k \in PageSizes :
            LET first  == Page(loaded.prev[1], 0, k)
                second == loaded.patches[<<k, k>>]
            IN  /\ Uuids(first) \cap Uuids(second) = {}
                /\ first \o second = loaded.patches[<<0, 2 * k>>]
                /\ first \o second = Page(loaded.prev[1], 0, 2 * k)

\* C15 (the claim as stated). Stop is single-shot: when the first Stop has
\* returned the store is closed; a second call of Stop ends in a panic; and
\* no patch handed to Store/PublishPatch after Stop began is written to the
\* store.
C15_StopSingleShot ==
    /\ [](spc = "stopped" => ~dbOpen)
    /\ [](nStop >= 2 => fatal = "close of closed channel")
    /\ [][(PersistReturns /\ lastDone'.outcome = "written") => ~cur[1].late]_vars

\* The error states of the stored patches whose stamp, as Load reads it, is
\* the most recent of the store d (more than one patch when stamps are equal).
MostRecentErr(d) ==
    {d[u].patchError # <<>> :
        u \in {v \in DOMAIN d : \A w \in DOMAIN d : StampOf(d)[w] <= StampOf(d)[v]}}

SeedOK(d, flag) == IF DOMAIN d = {} THEN ~flag ELSE flag \in MostRecentErr(d)

AmongMostRecent(d, u) ==
    Cardinality({v \in DOMAIN d \ {u} : StampOf(d)[v] >= StampOf(d)[u]}) < Retention

\* C17 (the claim as stated). Prune/replace race: a prune goroutine never
\* deletes a record that, when it is deleted, is among the Retention most
\* recent of the store; a uuid of its list that was persisted again with a
\* newer stamp since the Load is left in the store.
C17_PruneKeepsRecent ==
    [][\A u \in DOMAIN db \ DOMAIN db' : ~AmongMostRecent(db, u)]_vars

\* C18 (the claim as stated). Restart equivalence of the flag: whenever the
\* worker is idle and a patch is stored, lastHasErrors is what opening the
\* same store afresh would seed: the error state of the stored patch with the
\* most recent stamp.
C18_RestartEquivalence ==
    (wpc = "recv" /\ DOMAIN db # {}) => SeedOK(db, lastHasErrors)

\* ----------------------------------------------------------------- C19
\* No statement closes p.patches: Stop closes p.done, which nothing reads,
\* and the db.
PatchesClosed == FALSE

\* `for patch := range p.patches` ends when the channel is closed and empty;
\* the goroutine also ends with the process.
WorkerEnded == ~Alive \/ (WorkerReady /\ PatchesClosed /\ patches = {})

\* Stop has returned and no Store or PublishPatch call is in flight.
Quiesced == spc = "stopped" /\ patches = {} /\ \A c \in Callers : cpc[c] = "idle"

\* The goroutines are scheduled fairly: the worker goes on whenever it can,
\* and a Stop that has closed p.done goes on to close the db.
SpecFair == Init /\ [][Next]_vars /\ WF_vars(Worker) /\ WF_vars(StopCloseDB)

\* C19: once Stop has been called and no Store or PublishPatch call is in
\* flight, the persistence worker eventually terminates, and so takes no
\* further patch from the submission queue.
C19_WorkerTerminates == Quiesced ~> WorkerEnded

====
